---- MODULE Spec2Model ----
(***************************************************************************)
(* pdbhelper.cpp: ResolveStackFrameSymbols and MatchModuleWithPdbFile, the *)
(* two exported entry points of the DIA wrapper, as a state machine with   *)
(* one action per provider step of the code.                               *)
(*                                                                         *)
(* HRESULT is the signed 32-bit LONG of the Windows headers: FAILED(hr) is *)
(* hr < 0.  A pointer or BSTR is <<>> when NULL and <<v>> when it refers   *)
(* to v.  A format buffer is <<>> while no StringCchPrintfW wrote it       *)
(* (uninitialized stack memory) and <<text>> afterwards.                   *)
(*                                                                         *)
(* x64.c, aarch64.c and test.c: the call-stack fixture func4 -> func3 ->   *)
(* func2 -> func1, its thread and the thread that controls it, with one    *)
(* action per statement that touches the shared variables.                 *)
(***************************************************************************)
EXTENDS Integers, Sequences, FiniteSets, TLC

VARIABLES pc, api, Rva, PdbFile, ExeFile, loc, int, out, ret, trace, prev,
          arch, mem, buf, thread, main, published

\* The state of pdbhelper.cpp and the state of the call-stack fixture.
pdbhelper == <<pc, api, Rva, PdbFile, ExeFile, loc, int, out, ret, trace, prev>>
fixture == <<arch, mem, buf, thread, main, published>>

vars == <<pc, api, Rva, PdbFile, ExeFile, loc, int, out, ret, trace, prev,
          arch, mem, buf, thread, main, published>>

----------------------------------------------------------------------------
(* Bounds of the model *)

\* Addresses range over 0..MaxRva.
MaxRva == 2
\* Each field of an identity triple (guid, signature, age) ranges over 0..MaxId.
MaxId == 1

----------------------------------------------------------------------------
(* Windows status codes *)

S_OK == 0
S_FALSE == 1
E_FAIL == -2147467259
E_INVALIDARG == -2147024809
RPC_E_CHANGED_MODE == -2147417850

FAILED(hr) == hr < 0

\* The error codes a provider step may answer with.
FailCodes == {E_FAIL, E_INVALIDARG}

NULL == <<>>
Ptr(v) == <<v>>
Deref(p) == p[1]

\* SysStringLen: 0 for a NULL BSTR, else the length of the string.
SysStringLenIsZero(bstr) == bstr = NULL \/ Deref(bstr) = ""

----------------------------------------------------------------------------
(* StringCchPrintfW(buffer, 256, L"<text> (HRESULT: 0x%lX)", Hr) *)

HexDigit(d) ==
    CASE d = 0 -> "0" [] d = 1 -> "1" [] d = 2 -> "2" [] d = 3 -> "3"
      [] d = 4 -> "4" [] d = 5 -> "5" [] d = 6 -> "6" [] d = 7 -> "7"
      [] d = 8 -> "8" [] d = 9 -> "9" [] d = 10 -> "A" [] d = 11 -> "B"
      [] d = 12 -> "C" [] d = 13 -> "D" [] d = 14 -> "E" [] OTHER -> "F"

RECURSIVE HexU(_)
HexU(n) == IF n < 16 THEN HexDigit(n) ELSE HexU(n \div 16) \o HexDigit(n % 16)

RECURSIVE HexPad(_, _)
HexPad(n, w) ==
    IF w = 0 THEN "" ELSE HexPad(n \div 16, w - 1) \o HexDigit(n % 16)

\* %lX of a LONG: the value as an unsigned 32-bit number, upper-case hex,
\* no padding.  A negative hr is hr + 2^32: top digit 8.. and 7 more digits.
HexLX(hr) ==
    IF hr >= 0 THEN HexU(hr)
    ELSE LET low == (hr + 2147483647) + 1
         IN  HexDigit(8 + (low \div 268435456)) \o HexPad(low % 268435456, 7)

\* Every message of the file is shorter than the 256 characters of the
\* buffer, so the bounded print never truncates.
StringCchPrintfW(text, hr) == text \o " (HRESULT: 0x" \o HexLX(hr) \o ")"

\* What a read of a format buffer that nothing wrote can yield: the stack
\* memory may start with a terminator or hold left-over text.
UninitializedText == {"", "<uninitialized stack memory>"}

\* SysAllocString(ErrorMessageFmtBuffer): the strings the copy can hold.
SysAllocStringOf(buffer) ==
    IF buffer = <<>> THEN UninitializedText ELSE {Deref(buffer)}

----------------------------------------------------------------------------
(* The provider's data: a debug store and a module *)

\* Function symbols a store may hold; two of them overlap at address 1.
FuncPool == {[name |-> "f", start |-> 0, len |-> 2],
             [name |-> "g", start |-> 1, len |-> MaxRva]}

\* Line records a store may hold; two of them overlap at address 1.
LinePool == {[file |-> "a.c", line |-> 10, start |-> 0, len |-> 2],
             [file |-> "b.c", line |-> 20, start |-> 1, len |-> MaxRva]}

Triples == [guid : 0..MaxId, signature : 0..MaxId, age : 0..MaxId]

NoTriple == [guid |-> 0, signature |-> 0, age |-> 0]

NoFile == [funcs |-> {}, lines |-> {}, id |-> NoTriple]

\* The stores ResolveStackFrameSymbols is run against.
Stores == {[funcs |-> fs, lines |-> ls, id |-> NoTriple] :
              fs \in SUBSET FuncPool, ls \in SUBSET LinePool}

\* The files MatchModuleWithPdbFile is run against: only the identity counts.
IdFiles == {[funcs |-> {}, lines |-> {}, id |-> t] : t \in Triples}

Covers(r, rva) == r.start <= rva /\ rva < r.start + r.len

\* IDiaSession::findSymbolByRVAEx(Rva, SymTagFunction): the function symbols
\* whose range contains rva.
FunctionsAt(store, rva) == {f \in store.funcs : Covers(f, rva)}

\* IDiaSession::findLinesByRVA(Rva, 1): the line records covering the one
\* byte at rva.
LinesAt(store, rva) == {l \in store.lines : Covers(l, rva)}

\* What a name query (get_undecoratedName, get_name) can answer: a status
\* and, when the status is S_OK, a string that may be empty.
NameAnswers(name) ==
    {[hr |-> S_OK, str |-> Ptr(name)], [hr |-> S_OK, str |-> Ptr("")],
     [hr |-> S_FALSE, str |-> NULL], [hr |-> E_FAIL, str |-> NULL]}

NotAsked == [hr |-> S_FALSE, str |-> NULL]

----------------------------------------------------------------------------
(* Locals and outputs *)

\* Locals of the exported function in progress.
LocInit ==
    [Hr |-> S_OK, DiaDataSource |-> NULL, Session |-> NULL,
     DiaSession |-> NULL, DiaSymbol |-> NULL, ErrorMessageFmtBuffer |-> <<>>,
     ExeGuid |-> 0, ExeSignature |-> 0, ExeAge |-> 0,
     PdbGuid |-> 0, PdbSignature |-> 0, PdbAge |-> 0]

\* Locals of ResolveStackFrameSymbolsInternal.
IntInit ==
    [Symbol |-> NULL, Displacement |-> 0, Hr |-> S_OK,
     FunctionName |-> NULL, FileName |-> NULL,
     DiaEnumLineNumbers |-> NULL, DiaLineNumber |-> NULL,
     DiaSourceFile |-> NULL, LineNumber |-> 0, Count |-> 0,
     ErrorMessageFmtBuffer |-> <<>>,
     und |-> NotAsked, raw |-> NotAsked]

\* The out-parameters after the entry point reset them.
OutInit ==
    [FileNameOut |-> NULL, LineNumberOut |-> 0, FunctionNameOut |-> NULL,
     DisplacementOut |-> 0, ErrorMessageOut |-> NULL, IsMatched |-> FALSE]

\* One provider call, as logged in trace.
Event(op, on, hr) == [op |-> op, on |-> on, hr |-> hr]

\* prev holds what the call before the one in progress returned and what the
\* provider answered during it; NoPrev while there was none.
NoPrev == <<>>

\* The call chain of the fixture, innermost first: funck is Chain[k].
Chain == <<"func1", "func2", "func3", "func4", "StartCallStack">>

\* An address or stack pointer value: the function it lies in and the call
\* it follows; Zero is the 0 the three variables are initialized to.
Site(in, after) == [in |-> in, after |-> after]
Zero == Site("", "")

\* x64.c lines 17-19, 39, 46 (aarch64.c names the first three current_pc,
\* return_pc and current_sp): the shared variables as initialized.
MemInit ==
    [current_rip |-> Zero, return_rip |-> Zero, current_rsp |-> Zero,
     in_frame |-> 0, next_frame |-> 1]

\* The fixture thread, which runs StartCallStack, and the thread that
\* controls it (main of test.c, or any caller of the exported functions).
Threads == {"thread", "main"}

\* The fixture thread before it is created: fn is k while it runs funck.
ThreadInit == [fn |-> 0, at |-> "not started"]

\* main of test.c before it runs: its three locals (lines 34-36), the wait
\* it has reached (k) and the number of its calls of ContinueToNextFrame.
MainInit ==
    [k |-> 0, at |-> "not started", current_rip |-> Zero, return_rip |-> Zero,
     current_rsp |-> Zero, calls |-> 0]

Init ==
    /\ pc = "idle"
    /\ api = "none"
    /\ Rva = 0
    /\ PdbFile = NoFile
    /\ ExeFile = NoFile
    /\ loc = LocInit
    /\ int = IntInit
    /\ out = OutInit
    /\ ret = S_OK
    /\ trace = <<>>
    /\ prev = NoPrev
    /\ arch = "none"
    /\ mem = MemInit
    /\ buf = [t \in Threads |-> <<>>]
    /\ thread = ThreadInit
    /\ main = MainInit
    /\ published = 0

\* A failing step of the exported function: format the message into the
\* function's buffer, keep the status, goto Cleanup.
FailOuter(text, hr) ==
    loc' = [loc EXCEPT !.Hr = hr,
                       !.ErrorMessageFmtBuffer =
                           Ptr(StringCchPrintfW(text, hr))]

----------------------------------------------------------------------------
(* ResolveStackFrameSymbols *)

\* Lines 168-178: the caller passes a store and an rva; the outputs are reset.
ResolveStackFrameSymbols ==
    /\ pc = "idle"
    /\ \E store \in Stores, rva \in 0..MaxRva :
          /\ PdbFile' = store
          /\ Rva' = rva
    /\ api' = "Resolve"
    /\ ExeFile' = NoFile
    /\ loc' = LocInit
    /\ int' = IntInit
    /\ out' = OutInit
    /\ ret' = S_OK
    /\ trace' = <<>>
    /\ prev' = prev
    /\ UNCHANGED fixture
    /\ pc' = "R_CoInitialize"

\* Lines 180-188.
R_CoInitialize ==
    /\ pc = "R_CoInitialize"
    /\ \E hr \in {S_OK, S_FALSE, RPC_E_CHANGED_MODE} :
          /\ trace' = Append(trace, Event("CoInitialize", "COM", hr))
          /\ IF FAILED(hr)
             THEN /\ FailOuter("Failed to initialize COM", hr)
                  /\ pc' = "R_Cleanup"
             ELSE /\ loc' = [loc EXCEPT !.Hr = hr]
                  /\ pc' = "R_CoCreateInstance"
    /\ UNCHANGED <<fixture, prev, api, Rva, PdbFile, ExeFile, int, out, ret>>

\* Lines 190-202.
R_CoCreateInstance ==
    /\ pc = "R_CoCreateInstance"
    /\ \E hr \in {S_OK} \cup FailCodes :
          /\ trace' = Append(trace, Event("CoCreateInstance", "DiaDataSource", hr))
          /\ IF FAILED(hr)
             THEN /\ FailOuter("Failed to create DIA data source instance.", hr)
                  /\ pc' = "R_Cleanup"
             ELSE /\ loc' = [loc EXCEPT !.Hr = hr,
                                        !.DiaDataSource = Ptr("DiaDataSource")]
                  /\ pc' = "R_loadDataFromPdb"
    /\ UNCHANGED <<fixture, prev, api, Rva, PdbFile, ExeFile, int, out, ret>>

\* Lines 204-212.
R_loadDataFromPdb ==
    /\ pc = "R_loadDataFromPdb"
    /\ \E hr \in {S_OK} \cup FailCodes :
          /\ trace' = Append(trace, Event("loadDataFromPdb", "DiaDataSource", hr))
          /\ IF FAILED(hr)
             THEN /\ FailOuter("Failed to load PDB file", hr)
                  /\ pc' = "R_Cleanup"
             ELSE /\ loc' = [loc EXCEPT !.Hr = hr]
                  /\ pc' = "R_openSession"
    /\ UNCHANGED <<fixture, prev, api, Rva, PdbFile, ExeFile, int, out, ret>>

\* Lines 214-222.
R_openSession ==
    /\ pc = "R_openSession"
    /\ \E hr \in {S_OK} \cup FailCodes :
          /\ trace' = Append(trace, Event("openSession", "DiaDataSource", hr))
          /\ IF FAILED(hr)
             THEN /\ FailOuter("Failed to open DIA Session", hr)
                  /\ pc' = "R_Cleanup"
             ELSE /\ loc' = [loc EXCEPT !.Hr = hr, !.Session = Ptr("Session")]
                  /\ pc' = "I_findSymbolByRVAEx"
    /\ UNCHANGED <<fixture, prev, api, Rva, PdbFile, ExeFile, int, out, ret>>

----------------------------------------------------------------------------
(* ResolveStackFrameSymbolsInternal *)

\* What findSymbolByRVAEx can answer: an error code; S_FALSE and no symbol
\* when no function contains rva; else S_OK, one of the functions containing
\* rva and the displacement of rva from its start.
SymbolAnswers(store, rva) ==
    {[hr |-> c, sym |-> NULL, disp |-> 0] : c \in FailCodes}
    \cup (IF FunctionsAt(store, rva) = {}
          THEN {[hr |-> S_FALSE, sym |-> NULL, disp |-> 0]}
          ELSE {[hr |-> S_OK, sym |-> Ptr(f), disp |-> rva - f.start] :
                   f \in FunctionsAt(store, rva)})

\* Lines 63-83: the locals are initialized, the symbol is looked up.
I_findSymbolByRVAEx ==
    /\ pc = "I_findSymbolByRVAEx"
    /\ \E ans \in SymbolAnswers(PdbFile, Rva) :
          /\ trace' = Append(trace, Event("findSymbolByRVAEx", "Session", ans.hr))
          /\ IF FAILED(ans.hr)
             THEN /\ int' = [IntInit EXCEPT
                               !.Hr = ans.hr,
                               !.ErrorMessageFmtBuffer =
                                   Ptr(StringCchPrintfW(
                                       "Failed to find Symbol by RVA", ans.hr))]
                  /\ pc' = "I_Exit"
             ELSE /\ int' = [IntInit EXCEPT !.Hr = ans.hr,
                                            !.Symbol = ans.sym,
                                            !.Displacement = ans.disp]
                  /\ pc' = "I_FunctionName"
    /\ UNCHANGED <<fixture, prev, api, Rva, PdbFile, ExeFile, loc, out, ret>>

\* FunctionNameOf without the SysStringLen tests: a query that answers S_OK
\* with an empty string is taken as the name.
FunctionNameOf_NoLengthTest(und, raw) ==
    IF und.hr # S_OK
    THEN IF raw.hr # S_OK THEN Ptr("(None)") ELSE raw.str
    ELSE und.str

\* Line 86: the first condition, under which get_name is called at all.
NeedsRawName(und) == und.hr # S_OK \/ SysStringLenIsZero(und.str)

\* Lines 86-90: the name the function keeps after the two queries.
FunctionNameOf(und, raw) ==
    IF und.hr # S_OK \/ SysStringLenIsZero(und.str)
    THEN IF raw.hr # S_OK \/ SysStringLenIsZero(raw.str)
         THEN Ptr("(None)")
         ELSE raw.str
    ELSE und.str

Undecorated(sym) == IF sym = NULL THEN "<wild>" ELSE Deref(sym).name

Decorated(sym) ==
    IF sym = NULL THEN "<wild>" ELSE "?" \o Deref(sym).name \o "@@YAXXZ"

\* A method call through a NULL interface pointer is undefined: the call
\* faults (the process dies in the call) or runs on with whatever it read.
NullCallOutcomes == {"fault", "continue"}

\* Lines 85-90: Symbol is dereferenced without a NULL test.
I_FunctionName ==
    /\ pc = "I_FunctionName"
    /\ \E outcome \in (IF int.Symbol = NULL THEN NullCallOutcomes
                                           ELSE {"continue"}) :
          IF outcome = "fault"
          THEN /\ trace' = Append(trace,
                               Event("get_undecoratedName", "NULL", E_FAIL))
               /\ pc' = "crashed"
               /\ int' = int
          ELSE \E und \in NameAnswers(Undecorated(int.Symbol)) :
               \E raw \in (IF NeedsRawName(und)
                           THEN NameAnswers(Decorated(int.Symbol))
                           ELSE {NotAsked}) :
                  /\ trace' =
                       trace
                       \o <<Event("get_undecoratedName",
                                  IF int.Symbol = NULL THEN "NULL" ELSE "Symbol",
                                  und.hr)>>
                       \o (IF NeedsRawName(und)
                           THEN <<Event("get_name",
                                        IF int.Symbol = NULL THEN "NULL"
                                                             ELSE "Symbol",
                                        raw.hr)>>
                           ELSE <<>>)
                  /\ int' = [int EXCEPT !.und = und, !.raw = raw,
                                        !.FunctionName = FunctionNameOf(und, raw)]
                  /\ pc' = "I_findLinesByRVA"
    /\ UNCHANGED <<fixture, prev, api, Rva, PdbFile, ExeFile, loc, out, ret>>

\* Lines 92-99: the status of the query is tested but not stored in Hr, so
\* the message carries, and the function keeps, the status of the lookup.
I_findLinesByRVA ==
    /\ pc = "I_findLinesByRVA"
    /\ \E hr \in {S_OK} \cup FailCodes :
          /\ trace' = Append(trace, Event("findLinesByRVA", "Session", hr))
          /\ IF FAILED(hr)
             THEN /\ int' = [int EXCEPT
                               !.ErrorMessageFmtBuffer =
                                   Ptr(StringCchPrintfW(
                                       "Failed to find line info by RVA",
                                       int.Hr))]
                  /\ pc' = "I_Exit"
             ELSE /\ int' = [int EXCEPT
                               !.DiaEnumLineNumbers = Ptr(LinesAt(PdbFile, Rva))]
                  /\ pc' = "I_Next"
    /\ UNCHANGED <<fixture, prev, api, Rva, PdbFile, ExeFile, loc, out, ret>>

\* What IDiaEnumLineNumbers::Next(1, ..) can answer: an error code; S_FALSE
\* and a count of 0 when the enumeration is empty; else S_OK, a count of 1
\* and the record the enumeration yields first (in the provider's order).
NextAnswers(lines) ==
    {[hr |-> c, rec |-> NULL, count |-> 0] : c \in FailCodes}
    \cup (IF lines = {}
          THEN {[hr |-> S_FALSE, rec |-> NULL, count |-> 0]}
          ELSE {[hr |-> S_OK, rec |-> Ptr(l), count |-> 1] : l \in lines})

\* Lines 101-108.
I_Next ==
    /\ pc = "I_Next"
    /\ \E ans \in NextAnswers(Deref(int.DiaEnumLineNumbers)) :
          /\ trace' = Append(trace, Event("Next", "DiaEnumLineNumbers", ans.hr))
          /\ IF FAILED(ans.hr) \/ ans.count # 1
             THEN /\ int' = [int EXCEPT
                               !.Hr = ans.hr, !.Count = ans.count,
                               !.ErrorMessageFmtBuffer =
                                   Ptr(StringCchPrintfW(
                                       "Failed to enumerate line number",
                                       ans.hr))]
                  /\ pc' = "I_Exit"
             ELSE /\ int' = [int EXCEPT !.Hr = ans.hr, !.Count = ans.count,
                                        !.DiaLineNumber = ans.rec]
                  /\ pc' = "I_get_lineNumber"
    /\ UNCHANGED <<fixture, prev, api, Rva, PdbFile, ExeFile, loc, out, ret>>

\* I_get_lineNumber storing the line straight into *LineNumberOut instead of
\* the local.
I_get_lineNumber_WritesOutput ==
    /\ pc = "I_get_lineNumber"
    /\ \E hr \in {S_OK} \cup FailCodes :
          /\ trace' = Append(trace, Event("get_lineNumber", "DiaLineNumber", hr))
          /\ IF FAILED(hr)
             THEN /\ int' = [int EXCEPT
                               !.Hr = hr,
                               !.ErrorMessageFmtBuffer =
                                   Ptr(StringCchPrintfW(
                                       "Failed to get line number", hr))]
                  /\ out' = out
                  /\ pc' = "I_Exit"
             ELSE /\ int' = [int EXCEPT
                               !.Hr = hr,
                               !.LineNumber = Deref(int.DiaLineNumber).line]
                  /\ out' = [out EXCEPT
                               !.LineNumberOut = Deref(int.DiaLineNumber).line]
                  /\ pc' = "I_get_sourceFile"
    /\ UNCHANGED <<fixture, prev, api, Rva, PdbFile, ExeFile, loc, ret>>

\* Lines 110-118.
I_get_lineNumber ==
    /\ pc = "I_get_lineNumber"
    /\ \E hr \in {S_OK} \cup FailCodes :
          /\ trace' = Append(trace, Event("get_lineNumber", "DiaLineNumber", hr))
          /\ IF FAILED(hr)
             THEN /\ int' = [int EXCEPT
                               !.Hr = hr,
                               !.ErrorMessageFmtBuffer =
                                   Ptr(StringCchPrintfW(
                                       "Failed to get line number", hr))]
                  /\ pc' = "I_Exit"
             ELSE /\ int' = [int EXCEPT
                               !.Hr = hr,
                               !.LineNumber = Deref(int.DiaLineNumber).line]
                  /\ pc' = "I_get_sourceFile"
    /\ UNCHANGED <<fixture, prev, api, Rva, PdbFile, ExeFile, loc, out, ret>>

\* Lines 120-128.
I_get_sourceFile ==
    /\ pc = "I_get_sourceFile"
    /\ \E hr \in {S_OK} \cup FailCodes :
          /\ trace' = Append(trace, Event("get_sourceFile", "DiaLineNumber", hr))
          /\ IF FAILED(hr)
             THEN /\ int' = [int EXCEPT
                               !.Hr = hr,
                               !.ErrorMessageFmtBuffer =
                                   Ptr(StringCchPrintfW(
                                       "Failed to get source file", hr))]
                  /\ pc' = "I_Exit"
             ELSE /\ int' = [int EXCEPT
                               !.Hr = hr,
                               !.DiaSourceFile =
                                   Ptr(Deref(int.DiaLineNumber).file)]
                  /\ pc' = "I_get_fileName"
    /\ UNCHANGED <<fixture, prev, api, Rva, PdbFile, ExeFile, loc, out, ret>>

\* Lines 130-138.
I_get_fileName ==
    /\ pc = "I_get_fileName"
    /\ \E hr \in {S_OK} \cup FailCodes :
          /\ trace' = Append(trace, Event("get_fileName", "DiaSourceFile", hr))
          /\ IF FAILED(hr)
             THEN /\ int' = [int EXCEPT
                               !.Hr = hr,
                               !.ErrorMessageFmtBuffer =
                                   Ptr(StringCchPrintfW(
                                       "Failed to get source file name", hr))]
                  /\ pc' = "I_Exit"
             ELSE /\ int' = [int EXCEPT !.Hr = hr,
                                        !.FileName = int.DiaSourceFile]
                  /\ pc' = "I_Outputs"
    /\ UNCHANGED <<fixture, prev, api, Rva, PdbFile, ExeFile, loc, out, ret>>

\* I_Outputs without the store to *DisplacementOut.
I_Outputs_NoDisplacement ==
    /\ pc = "I_Outputs"
    /\ out' = [out EXCEPT !.FileNameOut = int.FileName,
                          !.LineNumberOut = int.LineNumber,
                          !.FunctionNameOut = int.FunctionName]
    /\ int' = [int EXCEPT !.Hr = S_OK]
    /\ pc' = "I_Exit"
    /\ UNCHANGED <<fixture, prev, api, Rva, PdbFile, ExeFile, loc, ret, trace>>

\* I_Outputs storing the queried address as the displacement.
I_Outputs_RvaAsDisplacement ==
    /\ pc = "I_Outputs"
    /\ out' = [out EXCEPT !.FileNameOut = int.FileName,
                          !.LineNumberOut = int.LineNumber,
                          !.FunctionNameOut = int.FunctionName,
                          !.DisplacementOut = Rva]
    /\ int' = [int EXCEPT !.Hr = S_OK]
    /\ pc' = "I_Exit"
    /\ UNCHANGED <<fixture, prev, api, Rva, PdbFile, ExeFile, loc, ret, trace>>

\* Lines 140-145: the four outputs are written together, after every step.
I_Outputs ==
    /\ pc = "I_Outputs"
    /\ out' = [out EXCEPT !.FileNameOut = int.FileName,
                          !.LineNumberOut = int.LineNumber,
                          !.FunctionNameOut = int.FunctionName,
                          !.DisplacementOut = int.Displacement]
    /\ int' = [int EXCEPT !.Hr = S_OK]
    /\ pc' = "I_Exit"
    /\ UNCHANGED <<fixture, prev, api, Rva, PdbFile, ExeFile, loc, ret, trace>>

\* Lines 146-155 and the caller's lines 225-234: the source file is released,
\* the strings are freed on failure, the format buffer is copied to
\* *ErrorMessageOut whether or not a step wrote it, and the caller goes to
\* Cleanup with the returned status.
I_Exit ==
    /\ pc = "I_Exit"
    /\ trace' =
         trace
         \o (IF int.DiaSourceFile # NULL
             THEN <<Event("Release", "DiaSourceFile", S_OK)>> ELSE <<>>)
         \o (IF FAILED(int.Hr) /\ int.FileName # NULL
             THEN <<Event("SysFreeString", "FileName", S_OK)>> ELSE <<>>)
         \o (IF FAILED(int.Hr) /\ int.FunctionName # NULL
             THEN <<Event("SysFreeString", "FunctionName", S_OK)>> ELSE <<>>)
    /\ \E text \in SysAllocStringOf(int.ErrorMessageFmtBuffer) :
          out' = [out EXCEPT !.ErrorMessageOut = Ptr(text)]
    /\ loc' = [loc EXCEPT !.Hr = int.Hr]
    /\ pc' = "R_Cleanup"
    /\ UNCHANGED <<fixture, prev, api, Rva, PdbFile, ExeFile, int, ret>>

\* Lines 236-241: the handles are released, COM is uninitialized, the
\* function's own format buffer is copied to *ErrorMessageOut whether or not
\* a step of this function wrote it, and Hr is returned.
R_Cleanup ==
    /\ pc = "R_Cleanup"
    /\ trace' =
         trace
         \o (IF loc.Session # NULL
             THEN <<Event("Release", "Session", S_OK)>> ELSE <<>>)
         \o (IF loc.DiaDataSource # NULL
             THEN <<Event("Release", "DiaDataSource", S_OK)>> ELSE <<>>)
         \o <<Event("CoUninitialize", "COM", S_OK)>>
    /\ \E text \in SysAllocStringOf(loc.ErrorMessageFmtBuffer) :
          out' = [out EXCEPT !.ErrorMessageOut = Ptr(text)]
    /\ ret' = loc.Hr
    /\ pc' = "returned"
    /\ UNCHANGED <<fixture, prev, api, Rva, PdbFile, ExeFile, loc, int>>

----------------------------------------------------------------------------
(* MatchModuleWithPdbFile *)

\* Lines 252-268: the caller passes a module and a store; the outputs are
\* reset.
MatchModuleWithPdbFile ==
    /\ pc = "idle"
    /\ \E exe \in IdFiles, pdb \in IdFiles :
          /\ ExeFile' = exe
          /\ PdbFile' = pdb
    /\ api' = "Match"
    /\ Rva' = 0
    /\ loc' = LocInit
    /\ int' = IntInit
    /\ out' = OutInit
    /\ ret' = S_OK
    /\ trace' = <<>>
    /\ prev' = prev
    /\ UNCHANGED fixture
    /\ pc' = "M_CoInitialize"

\* Lines 270-278.
M_CoInitialize ==
    /\ pc = "M_CoInitialize"
    /\ \E hr \in {S_OK, S_FALSE, RPC_E_CHANGED_MODE} :
          /\ trace' = Append(trace, Event("CoInitialize", "COM", hr))
          /\ IF FAILED(hr)
             THEN /\ FailOuter("Failed to initialize COM", hr)
                  /\ pc' = "M_Cleanup"
             ELSE /\ loc' = [loc EXCEPT !.Hr = hr]
                  /\ pc' = "M_CoCreateInstanceExe"
    /\ UNCHANGED <<fixture, prev, api, Rva, PdbFile, ExeFile, int, out, ret>>

\* MatchStep testing the status of the call without storing it in Hr, as
\* line 93 does: after an error code Hr keeps the status of the step before.
MatchStep_StatusNotStored(at, next, op, on, text, okLoc) ==
    /\ pc = at
    /\ \E hr \in {S_OK} \cup FailCodes :
          /\ trace' = Append(trace, Event(op, on, hr))
          /\ IF FAILED(hr)
             THEN /\ loc' = [loc EXCEPT
                               !.ErrorMessageFmtBuffer =
                                   Ptr(StringCchPrintfW(text, loc.Hr))]
                  /\ pc' = "M_Cleanup"
             ELSE /\ loc' = [okLoc EXCEPT !.Hr = hr]
                  /\ pc' = next
    /\ UNCHANGED <<fixture, prev, api, Rva, PdbFile, ExeFile, int, out, ret>>

\* One provider step of MatchModuleWithPdbFile: Hr takes the status of the
\* call; on an error code the message is formatted and control goes to
\* Cleanup, otherwise the locals become okLoc and the next step follows.
MatchStep(at, next, op, on, text, okLoc) ==
    /\ pc = at
    /\ \E hr \in {S_OK} \cup FailCodes :
          /\ trace' = Append(trace, Event(op, on, hr))
          /\ IF FAILED(hr)
             THEN /\ FailOuter(text, hr)
                  /\ pc' = "M_Cleanup"
             ELSE /\ loc' = [okLoc EXCEPT !.Hr = hr]
                  /\ pc' = next
    /\ UNCHANGED <<fixture, prev, api, Rva, PdbFile, ExeFile, int, out, ret>>

\* Lines 280-292.
M_CoCreateInstanceExe ==
    MatchStep("M_CoCreateInstanceExe", "M_loadDataForExe",
              "CoCreateInstance", "ExeDataSource",
              "Failed to create DIA data source instance.",
              [loc EXCEPT !.DiaDataSource = Ptr("ExeDataSource")])

\* Lines 294-302.
M_loadDataForExe ==
    MatchStep("M_loadDataForExe", "M_openSessionExe",
              "loadDataForExe", "ExeDataSource",
              "Failed to load exe file", loc)

\* Lines 304-312.
M_openSessionExe ==
    MatchStep("M_openSessionExe", "M_get_globalScopeExe",
              "openSession", "ExeDataSource",
              "Failed to open DIA Session for exe",
              [loc EXCEPT !.DiaSession = Ptr("ExeSession")])

\* Lines 314-322.
M_get_globalScopeExe ==
    MatchStep("M_get_globalScopeExe", "M_get_guidExe",
              "get_globalScope", "ExeSession",
              "Failed to get global scope of the exe",
              [loc EXCEPT !.DiaSymbol = Ptr("ExeSymbol")])

\* Lines 324-332.
M_get_guidExe ==
    MatchStep("M_get_guidExe", "M_get_signatureExe",
              "get_guid", "ExeSymbol",
              "Failed to get GUID of the exe",
              [loc EXCEPT !.ExeGuid = ExeFile.id.guid])

\* Lines 334-341.
M_get_signatureExe ==
    MatchStep("M_get_signatureExe", "M_get_ageExe",
              "get_signature", "ExeSymbol",
              "Failed to get signature of the exe",
              [loc EXCEPT !.ExeSignature = ExeFile.id.signature])

\* Lines 343-350.
M_get_ageExe ==
    MatchStep("M_get_ageExe", "M_ReleaseExe",
              "get_age", "ExeSymbol",
              "Failed to get age of the exe",
              [loc EXCEPT !.ExeAge = ExeFile.id.age])

\* M_ReleaseExe followed by a teardown and a second initialization of COM.
M_ReleaseExe_Reinitializes ==
    /\ pc = "M_ReleaseExe"
    /\ trace' = trace \o <<Event("Release", Deref(loc.DiaSymbol), S_OK),
                           Event("Release", Deref(loc.DiaSession), S_OK),
                           Event("Release", Deref(loc.DiaDataSource), S_OK),
                           Event("CoUninitialize", "COM", S_OK),
                           Event("CoInitialize", "COM", S_OK)>>
    /\ loc' = [loc EXCEPT !.DiaDataSource = NULL, !.DiaSession = NULL,
                          !.DiaSymbol = NULL]
    /\ pc' = "M_CoCreateInstancePdb"
    /\ UNCHANGED <<fixture, prev, api, Rva, PdbFile, ExeFile, int, out, ret>>

\* M_ReleaseExe without line 354: the module's data source stays open while
\* its pointer is cleared.
M_ReleaseExe_LeavesDataSource ==
    /\ pc = "M_ReleaseExe"
    /\ trace' = trace \o <<Event("Release", Deref(loc.DiaSymbol), S_OK),
                           Event("Release", Deref(loc.DiaSession), S_OK)>>
    /\ loc' = [loc EXCEPT !.DiaDataSource = NULL, !.DiaSession = NULL,
                          !.DiaSymbol = NULL]
    /\ pc' = "M_CoCreateInstancePdb"
    /\ UNCHANGED <<fixture, prev, api, Rva, PdbFile, ExeFile, int, out, ret>>

\* M_ReleaseExe without lines 355-357: the three pointers keep referring to
\* the released objects.
M_ReleaseExe_KeepsPointers ==
    /\ pc = "M_ReleaseExe"
    /\ trace' = trace \o <<Event("Release", Deref(loc.DiaSymbol), S_OK),
                           Event("Release", Deref(loc.DiaSession), S_OK),
                           Event("Release", Deref(loc.DiaDataSource), S_OK)>>
    /\ pc' = "M_CoCreateInstancePdb"
    /\ UNCHANGED <<fixture, prev, api, Rva, PdbFile, ExeFile, loc, int, out, ret>>

\* Lines 352-357: the module's three objects are released and the pointers
\* cleared; COM stays initialized.
M_ReleaseExe ==
    /\ pc = "M_ReleaseExe"
    /\ trace' = trace \o <<Event("Release", Deref(loc.DiaSymbol), S_OK),
                           Event("Release", Deref(loc.DiaSession), S_OK),
                           Event("Release", Deref(loc.DiaDataSource), S_OK)>>
    /\ loc' = [loc EXCEPT !.DiaDataSource = NULL, !.DiaSession = NULL,
                          !.DiaSymbol = NULL]
    /\ pc' = "M_CoCreateInstancePdb"
    /\ UNCHANGED <<fixture, prev, api, Rva, PdbFile, ExeFile, int, out, ret>>

\* Lines 359-371.
M_CoCreateInstancePdb ==
    MatchStep("M_CoCreateInstancePdb", "M_loadDataFromPdb",
              "CoCreateInstance", "PdbDataSource",
              "Failed to create DIA data source instance.",
              [loc EXCEPT !.DiaDataSource = Ptr("PdbDataSource")])

\* Lines 373-381.
M_loadDataFromPdb ==
    MatchStep("M_loadDataFromPdb", "M_openSessionPdb",
              "loadDataFromPdb", "PdbDataSource",
              "Failed to load PDB file", loc)

\* Lines 383-391.
M_openSessionPdb ==
    MatchStep("M_openSessionPdb", "M_get_globalScopePdb",
              "openSession", "PdbDataSource",
              "Failed to open DIA Session for PDB",
              [loc EXCEPT !.DiaSession = Ptr("PdbSession")])

\* Lines 393-401.
M_get_globalScopePdb ==
    MatchStep("M_get_globalScopePdb", "M_get_guidPdb",
              "get_globalScope", "PdbSession",
              "Failed to get global scope of the PDB",
              [loc EXCEPT !.DiaSymbol = Ptr("PdbSymbol")])

\* Lines 403-411.
M_get_guidPdb ==
    MatchStep("M_get_guidPdb", "M_get_signaturePdb",
              "get_guid", "PdbSymbol",
              "Failed to get GUID of the PDB",
              [loc EXCEPT !.PdbGuid = PdbFile.id.guid])

\* Lines 413-420.
M_get_signaturePdb ==
    MatchStep("M_get_signaturePdb", "M_get_agePdb",
              "get_signature", "PdbSymbol",
              "Failed to get signature of the PDB",
              [loc EXCEPT !.PdbSignature = PdbFile.id.signature])

\* Lines 422-429.
M_get_agePdb ==
    MatchStep("M_get_agePdb", "M_Compare",
              "get_age", "PdbSymbol",
              "Failed to get age of the PDB",
              [loc EXCEPT !.PdbAge = PdbFile.id.age])

\* M_Compare without the comparison of the ages.
M_Compare_IgnoresAge ==
    /\ pc = "M_Compare"
    /\ out' = [out EXCEPT !.IsMatched = /\ loc.PdbGuid = loc.ExeGuid
                                        /\ loc.PdbSignature = loc.ExeSignature]
    /\ loc' = [loc EXCEPT !.Hr = S_OK]
    /\ pc' = "M_Cleanup"
    /\ UNCHANGED <<fixture, prev, api, Rva, PdbFile, ExeFile, int, ret, trace>>

\* Lines 431-436.
M_Compare ==
    /\ pc = "M_Compare"
    /\ out' = [out EXCEPT !.IsMatched = /\ loc.PdbGuid = loc.ExeGuid
                                        /\ loc.PdbSignature = loc.ExeSignature
                                        /\ loc.PdbAge = loc.ExeAge]
    /\ loc' = [loc EXCEPT !.Hr = S_OK]
    /\ pc' = "M_Cleanup"
    /\ UNCHANGED <<fixture, prev, api, Rva, PdbFile, ExeFile, int, ret, trace>>

\* Lines 438-444: whatever is still open is released, COM is uninitialized,
\* the format buffer is copied to *ErrorMessageOut whether or not a step
\* wrote it, and Hr is returned.
M_Cleanup ==
    /\ pc = "M_Cleanup"
    /\ trace' =
         trace
         \o (IF loc.DiaSymbol # NULL
             THEN <<Event("Release", Deref(loc.DiaSymbol), S_OK)>> ELSE <<>>)
         \o (IF loc.DiaSession # NULL
             THEN <<Event("Release", Deref(loc.DiaSession), S_OK)>> ELSE <<>>)
         \o (IF loc.DiaDataSource # NULL
             THEN <<Event("Release", Deref(loc.DiaDataSource), S_OK)>>
             ELSE <<>>)
         \o <<Event("CoUninitialize", "COM", S_OK)>>
    /\ \E text \in SysAllocStringOf(loc.ErrorMessageFmtBuffer) :
          out' = [out EXCEPT !.ErrorMessageOut = Ptr(text)]
    /\ ret' = loc.Hr
    /\ pc' = "returned"
    /\ UNCHANGED <<fixture, prev, api, Rva, PdbFile, ExeFile, loc, int>>

----------------------------------------------------------------------------

Next ==
    \/ ResolveStackFrameSymbols
    \/ R_CoInitialize
    \/ R_CoCreateInstance
    \/ R_loadDataFromPdb
    \/ R_openSession
    \/ I_findSymbolByRVAEx
    \/ I_FunctionName
    \/ I_findLinesByRVA
    \/ I_Next
    \/ I_get_lineNumber
    \/ I_get_sourceFile
    \/ I_get_fileName
    \/ I_Outputs
    \/ I_Exit
    \/ R_Cleanup
    \/ MatchModuleWithPdbFile
    \/ M_CoInitialize
    \/ M_CoCreateInstanceExe
    \/ M_loadDataForExe
    \/ M_openSessionExe
    \/ M_get_globalScopeExe
    \/ M_get_guidExe
    \/ M_get_signatureExe
    \/ M_get_ageExe
    \/ M_ReleaseExe
    \/ M_CoCreateInstancePdb
    \/ M_loadDataFromPdb
    \/ M_openSessionPdb
    \/ M_get_globalScopePdb
    \/ M_get_guidPdb
    \/ M_get_signaturePdb
    \/ M_get_agePdb
    \/ M_Compare
    \/ M_Cleanup

Spec == Init /\ [][Next]_vars

----------------------------------------------------------------------------
(* A second call with the same arguments against the same files *)

\* The caller calls the entry point again with the arguments of the call
\* that returned; the entry point starts over with fresh locals and resets
\* the outputs (lines 168-178, 252-268).
Repeat ==
    /\ pc = "returned"
    /\ prev = NoPrev
    /\ prev' = Ptr([ret |-> ret, out |-> out, trace |-> trace, int |-> int])
    /\ pc' = IF api = "Resolve" THEN "R_CoInitialize" ELSE "M_CoInitialize"
    /\ loc' = LocInit
    /\ int' = IntInit
    /\ out' = OutInit
    /\ ret' = S_OK
    /\ trace' = <<>>
    /\ UNCHANGED <<api, Rva, PdbFile, ExeFile>>
    /\ UNCHANGED fixture

\* The provider answers the call in progress as it answered the call before:
\* the same status from each call so far, the same symbol, the same names
\* and the same line record.
SameAnswers ==
    \/ prev = NoPrev
    \/ LET p == Deref(prev)
       IN  /\ \A i \in 1..Len(trace) :
                 i <= Len(p.trace) => trace[i] = p.trace[i]
           /\ int.Symbol # NULL => int.Symbol = p.int.Symbol
           /\ int.und.str # NULL => int.und = p.int.und
           /\ int.raw.str # NULL => int.raw = p.int.raw
           /\ int.DiaLineNumber # NULL
                 => int.DiaLineNumber = p.int.DiaLineNumber

NextTwice ==
    \/ Repeat
    \/ (Next /\ SameAnswers')

SpecTwice == Init /\ [][NextTwice]_vars

----------------------------------------------------------------------------
(* The call-stack fixture: x64.c, aarch64.c *)

\* The number of calls of ContinueToNextFrame a caller other than main of
\* test.c makes at most.
MaxCalls == 5

\* The shared variables are volatile, not atomic, and no statement orders
\* the accesses of the two threads: a store is first pending in its thread
\* (buf) and reaches memory (mem) later.  A thread reads its own latest
\* pending store of a variable, else memory.
Pending(t, v) == {i \in 1..Len(buf[t]) : buf[t][i].var = v}

Load(t, v) ==
    IF Pending(t, v) = {}
    THEN mem[v]
    ELSE buf[t][CHOOSE i \in Pending(t, v) : \A j \in Pending(t, v) : j <= i].val

\* Thread t stores val in variable v; fn is the funck that stores (0 for
\* the controlling thread).
Store(t, v, val, fn) ==
    buf' = [buf EXCEPT ![t] = Append(@, [var |-> v, val |-> val, fn |-> fn])]

\* CanReach with the stores of a thread reaching memory in any order on
\* both processors.
CanReach_AnyOrder(t, i) ==
    \A j \in 1..(i - 1) : buf[t][j].var # buf[t][i].var

\* The pending store i of thread t may be the next to reach memory: on x64
\* the stores of a thread reach memory in program order; on aarch64 only the
\* stores to one variable do, those to different variables in any order.
CanReach(t, i) ==
    IF arch = "aarch64"
    THEN \A j \in 1..(i - 1) : buf[t][j].var # buf[t][i].var
    ELSE i = 1

\* A pending store reaches memory; published is the funck whose store of
\* in_frame is the one in memory.
StoreReachesMemory ==
    /\ \E t \in Threads :
       \E i \in 1..Len(buf[t]) :
          /\ CanReach(t, i)
          /\ mem' = [mem EXCEPT ![buf[t][i].var] = buf[t][i].val]
          /\ buf' = [buf EXCEPT ![t] = SubSeq(@, 1, i - 1)
                                       \o SubSeq(@, i + 1, Len(@))]
          /\ published' = IF buf[t][i].var = "in_frame" THEN buf[t][i].fn
                                                        ELSE published
    /\ UNCHANGED <<pdbhelper, arch, thread, main>>

\* Lines 23-43: the exported getters, called by thread t.
GetCurrentRip(t) == Load(t, "current_rip")
GetReturnRip(t) == Load(t, "return_rip")
GetCurrentRsp(t) == Load(t, "current_rsp")
GetCurrentFrameNumber(t) == Load(t, "in_frame")

\* ContinueToNextFrame adding 2 to next_frame.
ContinueToNextFrame_ByTwo(t) ==
    Store(t, "next_frame", Load(t, "next_frame") + 2, 0)

\* Lines 48-50: next_frame++, by thread t.
ContinueToNextFrame(t) ==
    Store(t, "next_frame", Load(t, "next_frame") + 1, 0)

\* Lines 108-109, 96, 84, 72: the thread enters StartCallStack, which calls
\* func4, which calls func3, func2 and func1 before any other statement.
StartCallStack ==
    /\ thread.at = "created"
    /\ thread' = [fn |-> 1, at |-> "return_rip"]
    /\ UNCHANGED <<pdbhelper, arch, mem, buf, main, published>>

\* Lines 61, 73, 85, 97: return_rip = _ReturnAddress(), the address in the
\* caller of funck that follows the call.
func_return_rip ==
    /\ thread.at = "return_rip"
    /\ Store("thread", "return_rip",
             Site(Chain[thread.fn + 1], Chain[thread.fn]), thread.fn)
    /\ thread' = [thread EXCEPT !.at = "current_rsp"]
    /\ UNCHANGED <<pdbhelper, arch, mem, main, published>>

\* Lines 62, 74, 86, 98: current_rsp = GetRsp().
func_current_rsp ==
    /\ thread.at = "current_rsp"
    /\ Store("thread", "current_rsp", Site(Chain[thread.fn], "GetRsp"),
             thread.fn)
    /\ thread' = [thread EXCEPT !.at = "current_rip"]
    /\ UNCHANGED <<pdbhelper, arch, mem, main, published>>

\* Lines 63, 75, 87, 99: current_rip = _GetCurrentRip(), the address in
\* funck that follows the call of _GetCurrentRip.
func_current_rip ==
    /\ thread.at = "current_rip"
    /\ Store("thread", "current_rip",
             Site(Chain[thread.fn], "_GetCurrentRip"), thread.fn)
    /\ thread' = [thread EXCEPT !.at = "in_frame"]
    /\ UNCHANGED <<pdbhelper, arch, mem, main, published>>

\* Lines 65, 77, 89, 101: in_frame = next_frame.
func_in_frame ==
    /\ thread.at = "in_frame"
    /\ Store("thread", "in_frame", Load("thread", "next_frame"), thread.fn)
    /\ thread' = [thread EXCEPT !.at = "while"]
    /\ UNCHANGED <<pdbhelper, arch, mem, main, published>>

\* func_while testing next_frame < k in place of next_frame <= k.
func_while_OffByOne ==
    /\ thread.at = "while"
    /\ thread' = IF Load("thread", "next_frame") < thread.fn
                 THEN thread
                 ELSE [thread EXCEPT !.at = "return"]
    /\ UNCHANGED <<pdbhelper, arch, mem, buf, main, published>>

\* Lines 66, 78, 90, 102: while (next_frame <= k);
func_while ==
    /\ thread.at = "while"
    /\ thread' = IF Load("thread", "next_frame") <= thread.fn
                 THEN thread
                 ELSE [thread EXCEPT !.at = "return"]
    /\ UNCHANGED <<pdbhelper, arch, mem, buf, main, published>>

\* Lines 67, 79, 91, 103: funck returns, into func(k+1) after its call
\* (lines 72, 84, 96) or, from func4, into StartCallStack (line 109).
func_return ==
    /\ thread.at = "return"
    /\ thread' = IF thread.fn < 4
                 THEN [fn |-> thread.fn + 1, at |-> "return_rip"]
                 ELSE [fn |-> 5, at |-> "StartCallStack"]
    /\ UNCHANGED <<pdbhelper, arch, mem, buf, main, published>>

\* Lines 109-111: StartCallStack returns and the thread ends.
StartCallStack_return ==
    /\ thread.at = "StartCallStack"
    /\ thread' = [fn |-> 0, at |-> "returned"]
    /\ UNCHANGED <<pdbhelper, arch, mem, buf, main, published>>

\* The steps of the fixture thread.
ThreadStep ==
    \/ StartCallStack
    \/ func_return_rip
    \/ func_current_rsp
    \/ func_current_rip
    \/ func_in_frame
    \/ func_while
    \/ func_return
    \/ StartCallStack_return

----------------------------------------------------------------------------
(* The driver of the fixture: main of test.c *)

\* Lines 38-85: main loads dll.dll and looks the six exports up.  The file
\* can be missing; the fixture built from aarch64.c exports GetCurrentPc,
\* GetReturnPc and GetCurrentSp, so the lookup of GetCurrentRip (line 66)
\* fails on it and main returns 1.
main_LoadLibrary ==
    /\ main.at = "not started"
    /\ \E dll \in {"x64", "aarch64", "missing"} :
          /\ arch' = IF dll = "missing" THEN arch ELSE dll
          /\ main' = [main EXCEPT !.at = IF dll = "x64" THEN "CreateThread"
                                                       ELSE "return 1"]
    /\ UNCHANGED <<pdbhelper, mem, buf, thread, published>>

\* Lines 88-102: the thread that runs StartCallStack is created, or
\* CreateThread fails and main returns 1.
main_CreateThread ==
    /\ main.at = "CreateThread"
    /\ \E created \in BOOLEAN :
          IF created
          THEN /\ thread' = [thread EXCEPT !.at = "created"]
               /\ main' = [main EXCEPT !.k = 1, !.at = "wait"]
          ELSE /\ thread' = thread
               /\ main' = [main EXCEPT !.at = "return 1"]
    /\ UNCHANGED <<pdbhelper, arch, mem, buf, published>>

\* Lines 104, 111, 118, 125: while (get_current_frame_number() < k);
main_wait ==
    /\ main.at = "wait"
    /\ main' = IF GetCurrentFrameNumber("main") < main.k
               THEN main
               ELSE [main EXCEPT !.at = "get_current_rip"]
    /\ UNCHANGED <<pdbhelper, arch, mem, buf, thread, published>>

\* Lines 105, 112, 119, 126, 132.
main_get_current_rip ==
    /\ main.at = "get_current_rip"
    /\ main' = [main EXCEPT !.current_rip = GetCurrentRip("main"),
                            !.at = "get_current_rsp"]
    /\ UNCHANGED <<pdbhelper, arch, mem, buf, thread, published>>

\* Lines 106, 113, 120, 127, 133.
main_get_current_rsp ==
    /\ main.at = "get_current_rsp"
    /\ main' = [main EXCEPT !.current_rsp = GetCurrentRsp("main"),
                            !.at = "get_return_rip"]
    /\ UNCHANGED <<pdbhelper, arch, mem, buf, thread, published>>

\* Lines 107, 114, 121, 128, 134: after the reads that follow the fourth
\* wait comes the last continue (131), after the fifth reads the wait for
\* the thread (136).
main_get_return_rip ==
    /\ main.at = "get_return_rip"
    /\ main' = [main EXCEPT !.return_rip = GetReturnRip("main"),
                            !.at = IF main.k = 5 THEN "WaitForSingleObject"
                                                 ELSE "continue_to_next_frame"]
    /\ UNCHANGED <<pdbhelper, arch, mem, buf, thread, published>>

\* Lines 110, 117, 124, 131: continue_to_next_frame(); the first three are
\* followed by the wait for the next frame, the fourth by the last reads.
main_continue_to_next_frame ==
    /\ main.at = "continue_to_next_frame"
    /\ ContinueToNextFrame("main")
    /\ main' = [main EXCEPT !.calls = @ + 1,
                            !.k = @ + 1,
                            !.at = IF main.k < 4 THEN "wait"
                                                 ELSE "get_current_rip"]
    /\ UNCHANGED <<pdbhelper, arch, mem, thread, published>>

\* Lines 136-139: main waits until the thread has ended, then returns 0.
\* The stores of a thread that has ended have reached memory.
main_WaitForSingleObject ==
    /\ main.at = "WaitForSingleObject"
    /\ thread.at = "returned"
    /\ buf["thread"] = <<>>
    /\ main' = [main EXCEPT !.at = "return 0"]
    /\ UNCHANGED <<pdbhelper, arch, mem, buf, thread, published>>

\* The steps of main.
MainStep ==
    \/ main_LoadLibrary
    \/ main_CreateThread
    \/ main_wait
    \/ main_get_current_rip
    \/ main_get_current_rsp
    \/ main_get_return_rip
    \/ main_continue_to_next_frame
    \/ main_WaitForSingleObject

NextTest ==
    \/ main_LoadLibrary
    \/ main_CreateThread
    \/ main_wait
    \/ main_get_current_rip
    \/ main_get_current_rsp
    \/ main_get_return_rip
    \/ main_continue_to_next_frame
    \/ main_WaitForSingleObject
    \/ StartCallStack
    \/ func_return_rip
    \/ func_current_rsp
    \/ func_current_rip
    \/ func_in_frame
    \/ func_while
    \/ func_return
    \/ StartCallStack_return
    \/ StoreReachesMemory

\* test.c against the fixture: both threads are scheduled fairly, and a
\* pending store reaches memory eventually.
SpecTest ==
    /\ Init
    /\ [][NextTest]_vars
    /\ WF_vars(MainStep)
    /\ WF_vars(ThreadStep)
    /\ WF_vars(StoreReachesMemory)

----------------------------------------------------------------------------
(* Any other caller of the exported functions *)

\* The caller loads one of the two fixtures and starts a thread on
\* StartCallStack (x64.c lines 2-5).
Caller_StartCallStack ==
    /\ main.at = "not started"
    /\ \E dll \in {"x64", "aarch64"} : arch' = dll
    /\ thread' = [thread EXCEPT !.at = "created"]
    /\ main' = [main EXCEPT !.at = "caller"]
    /\ UNCHANGED <<pdbhelper, mem, buf, published>>

\* The caller calls ContinueToNextFrame, at any time and any number of
\* times up to MaxCalls.
Caller_ContinueToNextFrame ==
    /\ main.at = "caller"
    /\ main.calls < MaxCalls
    /\ ContinueToNextFrame("main")
    /\ main' = [main EXCEPT !.calls = @ + 1]
    /\ UNCHANGED <<pdbhelper, arch, mem, thread, published>>

NextCaller ==
    \/ Caller_StartCallStack
    \/ Caller_ContinueToNextFrame
    \/ StartCallStack
    \/ func_return_rip
    \/ func_current_rsp
    \/ func_current_rip
    \/ func_in_frame
    \/ func_while
    \/ func_return
    \/ StartCallStack_return
    \/ StoreReachesMemory

SpecCaller == Init /\ [][NextCaller]_vars

----------------------------------------------------------------------------
(* Vocabulary of the properties *)

ResolveReturned == api = "Resolve" /\ pc = "returned"

MatchReturned == api = "Match" /\ pc = "returned"

\* The four outputs hold the values the entry point reset them to.
OutputsReset ==
    /\ out.FileNameOut = NULL
    /\ out.LineNumberOut = 0
    /\ out.FunctionNameOut = NULL
    /\ out.DisplacementOut = 0

\* The four outputs hold the values of one resolution: the file and line of
\* the one line record fetched, and the name and displacement obtained for
\* the symbol.
OutputsPopulated ==
    /\ int.DiaLineNumber # NULL
    /\ out.FileNameOut = Ptr(Deref(int.DiaLineNumber).file)
    /\ out.LineNumberOut = Deref(int.DiaLineNumber).line
    /\ out.FunctionNameOut = int.FunctionName
    /\ int.FunctionName # NULL
    /\ out.DisplacementOut = int.Displacement

\* The two name queries, whose failure the code answers by falling back.
NameOps == {"get_undecoratedName", "get_name"}

\* The positions of trace at which a step other than a name query answered
\* with an error code.
ErrorSteps ==
    {i \in 1..Len(trace) : FAILED(trace[i].hr) /\ trace[i].op \notin NameOps}

FirstErrorStep == CHOOSE i \in ErrorSteps : \A j \in ErrorSteps : i <= j

Asked(op) == \E i \in 1..Len(trace) : trace[i].op = op

Answered(op, hr) ==
    \E i \in 1..Len(trace) : trace[i].op = op /\ trace[i].hr = hr

AnsweredOn(op, on, hr) == \E i \in 1..Len(trace) : trace[i] = Event(op, on, hr)

\* The reads of the six identity fields, on the module's and on the store's
\* global scope.
IdentityReads ==
    {<<op, on>> : op \in {"get_guid", "get_signature", "get_age"},
                  on \in {"ExeSymbol", "PdbSymbol"}}

AllSixFieldsRead == \A r \in IdentityReads : AnsweredOn(r[1], r[2], S_OK)

\* The handles of the two entry points: data sources, sessions and global
\* scope symbols, of the module (Exe..) and of the store.
ModuleHandles == {"ExeDataSource", "ExeSession", "ExeSymbol"}

StoreHandles ==
    {"DiaDataSource", "Session", "PdbDataSource", "PdbSession", "PdbSymbol"}

Handles == ModuleHandles \cup StoreHandles

\* The handle a logged call opened, "" when it opened none.
Opens(e) ==
    IF e.hr # S_OK THEN ""
    ELSE CASE e.op = "CoCreateInstance" -> e.on
           [] e.op = "openSession" /\ e.on = "DiaDataSource" -> "Session"
           [] e.op = "openSession" /\ e.on = "ExeDataSource" -> "ExeSession"
           [] e.op = "openSession" /\ e.on = "PdbDataSource" -> "PdbSession"
           [] e.op = "get_globalScope" /\ e.on = "ExeSession" -> "ExeSymbol"
           [] e.op = "get_globalScope" /\ e.on = "PdbSession" -> "PdbSymbol"
           [] OTHER -> ""

OpenCount(obj) == Cardinality({i \in 1..Len(trace) : Opens(trace[i]) = obj})

ReleaseCount(obj) ==
    Cardinality({i \in 1..Len(trace) : trace[i] = Event("Release", obj, S_OK)})

\* The handles opened and not yet released.
OpenHandles == {h \in Handles : OpenCount(h) > ReleaseCount(h)}

CountOf(op) == Cardinality({i \in 1..Len(trace) : trace[i].op = op})

\* The call is over: it returned, or it faulted in a call through NULL.
CallEnded == pc \in {"returned", "crashed"}

\* Every step of the call succeeded: no step answered an error code, the
\* symbol lookup found a symbol and the line fetch yielded a record.
EveryStepSucceeded ==
    /\ ErrorSteps = {}
    /\ ~Answered("findSymbolByRVAEx", S_FALSE)
    /\ ~Answered("Next", S_FALSE)

\* The text each step formats when it fails.
MessageOf(op, on) ==
    CASE op = "CoInitialize" -> "Failed to initialize COM"
      [] op = "CoCreateInstance" -> "Failed to create DIA data source instance."
      [] op = "loadDataFromPdb" -> "Failed to load PDB file"
      [] op = "openSession" /\ on = "DiaDataSource" -> "Failed to open DIA Session"
      [] op = "findSymbolByRVAEx" -> "Failed to find Symbol by RVA"
      [] op = "findLinesByRVA" -> "Failed to find line info by RVA"
      [] op = "Next" -> "Failed to enumerate line number"
      [] op = "get_lineNumber" -> "Failed to get line number"
      [] op = "get_sourceFile" -> "Failed to get source file"
      [] op = "get_fileName" -> "Failed to get source file name"
      [] OTHER -> "?"

----------------------------------------------------------------------------
(* Properties *)

\* C1: a call of ResolveStackFrameSymbols that returns a failure status
\* returns with all four outputs reset (NULL, 0, NULL, 0), whichever step
\* failed.
C1_FailureResetsOutputs ==
    (ResolveReturned /\ FAILED(ret)) => OutputsReset

\* A call failed at the last step, the file-name read, with the line number
\* and the function name already obtained.
C1_Witness ==
    /\ ResolveReturned
    /\ FAILED(ret)
    /\ Answered("get_fileName", E_FAIL)
    /\ int.LineNumber # 0
    /\ int.FunctionName # NULL
    /\ OutputsReset

\* C2: when every step succeeded and S_OK is returned, by either entry
\* point, the diagnostic in ErrorMessageOut is empty.
C2_SuccessDiagnosticEmpty ==
    (pc = "returned" /\ ret = S_OK /\ EveryStepSucceeded)
        => SysStringLenIsZero(out.ErrorMessageOut)

\* C3: a failing call of ResolveStackFrameSymbols returns the message of its
\* first failing step, with that step's status code.
C3_FirstFailureMessage ==
    (ResolveReturned /\ FAILED(ret) /\ ErrorSteps # {})
        => out.ErrorMessageOut =
              Ptr(StringCchPrintfW(
                     MessageOf(trace[FirstErrorStep].op,
                               trace[FirstErrorStep].on),
                     trace[FirstErrorStep].hr))

\* C4: at the return of ResolveStackFrameSymbols the four outputs are all
\* populated from one resolution or all at their reset values.
C4_AllOrNothing ==
    ResolveReturned => (OutputsReset \/ OutputsPopulated)

\* A call returned with the four outputs populated, the displacement and the
\* line differing from their reset values.
C4_Witness ==
    /\ ResolveReturned
    /\ OutputsPopulated
    /\ out.DisplacementOut # 0
    /\ out.LineNumberOut # 0
    /\ ~OutputsReset

\* C5: when the symbol lookup answers without an error code but finds no
\* symbol, the call issues no name or line query, and returns a failure
\* status with the outputs reset.
C5_NoSymbolFails ==
    (api = "Resolve" /\ Answered("findSymbolByRVAEx", S_FALSE))
        => /\ pc # "crashed"
           /\ ~Asked("get_undecoratedName")
           /\ ~Asked("get_name")
           /\ ~Asked("findLinesByRVA")
           /\ (pc = "returned" => (FAILED(ret) /\ OutputsReset))

\* C6: when rva lies in a function and the line fetch reports no error and a
\* count of 0, the call returns a failure status with the outputs reset.
C6_NoLineFails ==
    (ResolveReturned /\ Answered("findSymbolByRVAEx", S_OK)
       /\ Answered("Next", S_FALSE))
        => (FAILED(ret) /\ OutputsReset)

\* C7: when rva lies in a function, two or more line records cover it and
\* the line enumeration answered, the call fails and returns the file and
\* line of none of them.
C7_AmbiguousLineFails ==
    (ResolveReturned /\ Answered("findSymbolByRVAEx", S_OK)
       /\ Answered("Next", S_OK)
       /\ Cardinality(LinesAt(PdbFile, Rva)) >= 2)
        => (FAILED(ret) /\ out.FileNameOut = NULL /\ out.LineNumberOut = 0)

\* C8: a call of ResolveStackFrameSymbols in which a step answered an error
\* code returns a failure status; this covers the line query failing after
\* the symbol lookup succeeded.
C8_ErrorsPropagate ==
    (ResolveReturned /\ ErrorSteps # {}
       /\ ~Answered("findSymbolByRVAEx", S_FALSE))
        => FAILED(ret)

\* C9: when exactly one function contains rva, exactly one line record covers
\* it and no step answers an error code, the call returns S_OK with
\* displacement = rva - functionStart, the line and file of that record and a
\* non-empty function name.
C9_UniqueResolution ==
    (ResolveReturned /\ ErrorSteps = {}
       /\ Cardinality(FunctionsAt(PdbFile, Rva)) = 1
       /\ Cardinality(LinesAt(PdbFile, Rva)) = 1)
        => /\ ret = S_OK
           /\ \A f \in FunctionsAt(PdbFile, Rva) :
                 out.DisplacementOut = Rva - f.start
           /\ \A l \in LinesAt(PdbFile, Rva) :
                 /\ out.LineNumberOut = l.line
                 /\ out.FileNameOut = Ptr(l.file)
           /\ ~SysStringLenIsZero(out.FunctionNameOut)

\* A unique resolution at an address past the start of its function.
C9_Witness ==
    /\ ResolveReturned
    /\ ErrorSteps = {}
    /\ Cardinality(FunctionsAt(PdbFile, Rva)) = 1
    /\ Cardinality(LinesAt(PdbFile, Rva)) = 1
    /\ ret = S_OK
    /\ out.DisplacementOut > 0
    /\ out.DisplacementOut # Rva

\* C10: the function name of a call in which every step succeeded is the
\* undecorated name when that query answers S_OK with a non-empty string,
\* otherwise the raw name when that query answers S_OK with a non-empty
\* string, otherwise "(None)"; it is never empty.
C10_NameFallback ==
    (ResolveReturned /\ ret = S_OK /\ EveryStepSucceeded)
        => LET undGood == int.und.hr = S_OK /\ ~SysStringLenIsZero(int.und.str)
               rawGood == int.raw.hr = S_OK /\ ~SysStringLenIsZero(int.raw.str)
           IN  /\ undGood => out.FunctionNameOut = int.und.str
               /\ (~undGood /\ rawGood) => out.FunctionNameOut = int.raw.str
               /\ (~undGood /\ ~rawGood) => out.FunctionNameOut = Ptr("(None)")
               /\ ~SysStringLenIsZero(out.FunctionNameOut)

\* A successful call whose undecorated query answered S_OK with an empty
\* string and whose raw query failed: the name is the literal.
C10_Witness ==
    /\ ResolveReturned
    /\ ret = S_OK
    /\ EveryStepSucceeded
    /\ int.und = [hr |-> S_OK, str |-> Ptr("")]
    /\ int.raw.hr = E_FAIL
    /\ out.FunctionNameOut = Ptr("(None)")


\* C11: when no step of MatchModuleWithPdbFile answers an error code, the
\* call returns S_OK, and IsMatched is true exactly when the module's and
\* the store's guid, signature and age are all three equal.
C11_MatchIffTripleEqual ==
    (MatchReturned /\ ErrorSteps = {})
        => /\ ret = S_OK
           /\ out.IsMatched = (/\ ExeFile.id.guid = PdbFile.id.guid
                               /\ ExeFile.id.signature = PdbFile.id.signature
                               /\ ExeFile.id.age = PdbFile.id.age)

\* A call on a module and a store that differ in the age alone: success, and
\* no match.
C11_Witness ==
    /\ MatchReturned
    /\ ErrorSteps = {}
    /\ ExeFile.id.guid = PdbFile.id.guid
    /\ ExeFile.id.signature = PdbFile.id.signature
    /\ ExeFile.id.age # PdbFile.id.age
    /\ ret = S_OK
    /\ ~out.IsMatched


\* C12: a call of MatchModuleWithPdbFile in which a step answered an error
\* code returns a failure status with IsMatched false, and the triples are
\* compared only after all six identity fields were read.
C12_MatchFailure ==
    /\ (MatchReturned /\ ErrorSteps # {}) => (FAILED(ret) /\ ~out.IsMatched)
    /\ (api = "Match" /\ pc = "M_Compare") => AllSixFieldsRead
    /\ (api = "Match" /\ out.IsMatched) => AllSixFieldsRead

\* A call on a matching module and store whose last read, the store's age,
\* fails: five fields were read, and IsMatched stays false.
C12_Witness ==
    /\ MatchReturned
    /\ ExeFile.id = PdbFile.id
    /\ AnsweredOn("get_age", "PdbSymbol", E_FAIL)
    /\ AnsweredOn("get_signature", "PdbSymbol", S_OK)
    /\ FAILED(ret)
    /\ ~out.IsMatched


\* C13: at the return of either entry point every data source, session and
\* global scope symbol the call opened has been released exactly once; in no
\* state is one released that is not open.
C13_HandlesReleasedOnce ==
    /\ \A h \in Handles : ReleaseCount(h) <= OpenCount(h)
    /\ pc = "returned" => \A h \in Handles : ReleaseCount(h) = OpenCount(h)

\* A call of MatchModuleWithPdbFile that failed on the store's side, after
\* the module's three objects and the store's three objects were opened.
C13_Witness ==
    /\ MatchReturned
    /\ AnsweredOn("get_guid", "PdbSymbol", E_FAIL)
    /\ \A h \in ModuleHandles \cup {"PdbDataSource", "PdbSession", "PdbSymbol"} :
          OpenCount(h) = 1 /\ ReleaseCount(h) = 1


\* C14: every call performs the global initialization once, before any
\* handle is opened, and the global teardown once, after every handle the
\* call opened has been released.
C14_InitTeardownPairing ==
    CallEnded
        => /\ CountOf("CoInitialize") = 1
           /\ trace[1].op = "CoInitialize"
           /\ CountOf("CoUninitialize") = 1
           /\ trace[Len(trace)].op = "CoUninitialize"
           /\ OpenHandles = {}


\* C15: a second call with the same arguments, during which the provider
\* answers every query as in the first, returns the same status, the same
\* outputs and the same diagnostic.
C15_Idempotent ==
    (pc = "returned" /\ prev # NoPrev /\ trace = Deref(prev).trace)
        => (ret = Deref(prev).ret /\ out = Deref(prev).out)


\* C16: in MatchModuleWithPdbFile the module's data source, session and
\* global scope symbol are released before the creation of the store's data
\* source is asked for; in no state are a handle of the module and a handle
\* of the store both open.
C16_ModuleReleasedBeforeStore ==
    api = "Match"
        => /\ (\/ pc = "M_CoCreateInstancePdb"
               \/ \E i \in 1..Len(trace) :
                     /\ trace[i].op = "CoCreateInstance"
                     /\ trace[i].on = "PdbDataSource")
                 => \A h \in ModuleHandles :
                       OpenCount(h) = 1 /\ ReleaseCount(h) = 1
           /\ OpenHandles \cap ModuleHandles = {}
                 \/ OpenHandles \cap StoreHandles = {}

\* The store's data source and session are open, the module's three objects
\* having been opened and released before.
C16_Witness ==
    /\ api = "Match"
    /\ pc = "M_get_globalScopePdb"
    /\ OpenHandles = {"PdbDataSource", "PdbSession"}
    /\ \A h \in ModuleHandles : OpenCount(h) = 1 /\ ReleaseCount(h) = 1


\* The positions of trace at which the creation of the store's data source
\* was asked for in MatchModuleWithPdbFile.
StoreCreations ==
    {i \in 1..Len(trace) :
        trace[i].op = "CoCreateInstance" /\ trace[i].on = "PdbDataSource"}

\* C17 as stated: a call of MatchModuleWithPdbFile that reached the store
\* tore COM down after the last release of a module handle and initialized
\* it again before creating the store's data source, which makes two
\* initializations and two teardowns in the call.
C17_TwoInitializations ==
    (MatchReturned /\ StoreCreations # {})
        => /\ CountOf("CoInitialize") = 2
           /\ CountOf("CoUninitialize") = 2
           /\ \A i \in StoreCreations :
                 \E j, k \in 1..(i - 1) :
                    /\ j < k
                    /\ trace[j].op = "CoUninitialize"
                    /\ trace[k].op = "CoInitialize"
                    /\ \A r \in 1..Len(trace) :
                          (trace[r].op = "Release" /\ trace[r].on \in ModuleHandles)
                              => r < j

\* C17 as amended: a call of MatchModuleWithPdbFile initializes COM once, as
\* its first step, and tears it down once, as its last; the module's handles
\* are released and the store's data source is created in between, under
\* that one initialization.
C17_OneInitialization ==
    api = "Match"
        => /\ CountOf("CoInitialize") <= 1
           /\ \A i \in 1..Len(trace) :
                 /\ trace[i].op = "CoInitialize" => i = 1
                 /\ trace[i].op = "CoUninitialize"
                       => (i = Len(trace) /\ pc = "returned")
           /\ pc = "returned"
                 => (CountOf("CoInitialize") = 1 /\ CountOf("CoUninitialize") = 1)
           /\ \A i \in StoreCreations :
                 /\ \A j \in 1..(i - 1) : trace[j].op # "CoUninitialize"
                 /\ \A h \in ModuleHandles :
                       \E r \in 1..(i - 1) : trace[r] = Event("Release", h, S_OK)

\* A call that read all six identity fields returned after one
\* initialization and one teardown.
C17_Witness ==
    /\ MatchReturned
    /\ AllSixFieldsRead
    /\ StoreCreations # {}
    /\ CountOf("CoInitialize") = 1
    /\ CountOf("CoUninitialize") = 1


\* The provider objects ResolveStackFrameSymbolsInternal acquires, each with
\* the query whose S_OK hands it over.
ResolveObjects ==
    {[obj |-> "Symbol", op |-> "findSymbolByRVAEx"],
     [obj |-> "DiaEnumLineNumbers", op |-> "findLinesByRVA"],
     [obj |-> "DiaLineNumber", op |-> "Next"],
     [obj |-> "DiaSourceFile", op |-> "get_sourceFile"]}

\* The objects acquired during the call and not released.
UnreleasedObjects ==
    {o.obj : o \in {a \in ResolveObjects :
                       /\ Answered(a.op, S_OK)
                       /\ ReleaseCount(a.obj) = 0}}

\* C18: when ResolveStackFrameSymbols returns, on success and on every
\* failure, the function symbol, the line enumerator, the line record and
\* the source file acquired during the call have all been released.
C18_ObjectsReleased ==
    ResolveReturned => UnreleasedObjects = {}


\* The number of calls of CoInitialize that succeeded (S_OK, or S_FALSE when
\* COM was already initialized on the thread): each adds one to the thread's
\* initialization count, and each CoUninitialize takes one off.
SucceededInitializations ==
    Cardinality({i \in 1..Len(trace) :
                    trace[i].op = "CoInitialize" /\ ~FAILED(trace[i].hr)})

\* C19: a call that returns has called CoUninitialize as many times as its
\* calls of CoInitialize succeeded; a call whose CoInitialize failed calls
\* CoUninitialize not at all.
C19_InitializationCountUnchanged ==
    pc = "returned" => CountOf("CoUninitialize") = SucceededInitializations


\* The open and query steps of the two entry points, in the order of the
\* code.
ResolveSteps ==
    <<<<"CoInitialize", "COM">>, <<"CoCreateInstance", "DiaDataSource">>,
      <<"loadDataFromPdb", "DiaDataSource">>, <<"openSession", "DiaDataSource">>,
      <<"findSymbolByRVAEx", "Session">>, <<"get_undecoratedName", "Symbol">>,
      <<"get_name", "Symbol">>, <<"findLinesByRVA", "Session">>,
      <<"Next", "DiaEnumLineNumbers">>, <<"get_lineNumber", "DiaLineNumber">>,
      <<"get_sourceFile", "DiaLineNumber">>, <<"get_fileName", "DiaSourceFile">>>>

MatchSteps ==
    <<<<"CoInitialize", "COM">>, <<"CoCreateInstance", "ExeDataSource">>,
      <<"loadDataForExe", "ExeDataSource">>, <<"openSession", "ExeDataSource">>,
      <<"get_globalScope", "ExeSession">>, <<"get_guid", "ExeSymbol">>,
      <<"get_signature", "ExeSymbol">>, <<"get_age", "ExeSymbol">>,
      <<"CoCreateInstance", "PdbDataSource">>,
      <<"loadDataFromPdb", "PdbDataSource">>, <<"openSession", "PdbDataSource">>,
      <<"get_globalScope", "PdbSession">>, <<"get_guid", "PdbSymbol">>,
      <<"get_signature", "PdbSymbol">>, <<"get_age", "PdbSymbol">>>>

StepsOfCall == IF api = "Resolve" THEN ResolveSteps ELSE MatchSteps

RankOf(e) ==
    CHOOSE k \in 1..Len(StepsOfCall) : StepsOfCall[k] = <<e.op, e.on>>

\* The positions of trace that hold an open or query step, that is, neither
\* a release nor the teardown.
StepEvents ==
    {i \in 1..Len(trace) :
        trace[i].op \notin {"Release", "SysFreeString", "CoUninitialize"}}

\* The steps logged so far ran in the order of the code, each at most once.
StepsInOrder ==
    \A i, j \in StepEvents : i < j => RankOf(trace[i]) < RankOf(trace[j])

\* No open or query step was issued after the first step that answered an
\* error code.
NoStepAfterError ==
    ErrorSteps # {} => \A i \in StepEvents : i <= FirstErrorStep

\* C20: in a call of either entry point the steps run in their fixed order,
\* each at most once; after the first step that answered an error code (the
\* name queries apart, whose failure selects the fallback name) only
\* releases and the teardown follow, and the call returns that error code.
C20_FirstErrorReturned ==
    (api \in {"Resolve", "Match"} /\ ~Answered("findSymbolByRVAEx", S_FALSE))
        => /\ StepsInOrder
           /\ NoStepAfterError
           /\ (pc = "returned" /\ ErrorSteps # {})
                 => ret = trace[FirstErrorStep].hr


\* C21: with main of test.c and the fixture thread both scheduled fairly,
\* the value GetCurrentFrameNumber reports never decreases and goes through
\* 1, 2, 3, 4 one by one; each wait of main for frame k ends, with frame k
\* reported; and once main waits for frame 1 the fixture thread returns
\* from StartCallStack and main returns 0.
C21_HandshakeCompletes ==
    /\ [][/\ mem'.in_frame \in {mem.in_frame, mem.in_frame + 1}
          /\ mem'.in_frame <= 4]_vars
    /\ \A k \in 1..4 :
          (main.at = "wait" /\ main.k = k)
              ~> (/\ main.at = "get_current_rip"
                  /\ main.k = k
                  /\ GetCurrentFrameNumber("main") = k)
    /\ (main.at = "wait")
          ~> (thread.at = "returned" /\ main.at = "return 0")

\* main returned 0 after four calls of ContinueToNextFrame, the fixture
\* thread having returned from StartCallStack with frame 4 the last
\* reported.
C21_Witness ==
    /\ main.at = "return 0"
    /\ main.calls = 4
    /\ thread.at = "returned"
    /\ GetCurrentFrameNumber("main") = 4


\* The fixture thread has left the loop of funck: it is about to return from
\* funck or has returned from it.
LeftLoop(k) ==
    \/ thread.at = "returned"
    \/ thread.fn > k
    \/ (thread.fn = k /\ thread.at = "return")

\* C22: for k = 1..4, funck does not leave its loop, and so does not
\* return, before ContinueToNextFrame has been called k times and
\* next_frame exceeds k; with fewer than 4 calls the thread has not returned
\* from StartCallStack, and with none it is still in func1.
C22_NoReturnBeforeContinue ==
    /\ \A k \in 1..4 :
          LeftLoop(k) => (main.calls >= k /\ Load("main", "next_frame") > k)
    /\ main.calls < 4 => thread.at \notin {"StartCallStack", "returned"}
    /\ (main.calls = 0 /\ thread.fn # 0) => thread.fn = 1

\* After three calls the thread has come through func1, func2 and func3 and
\* spins in the loop of func4, all its stores in memory.
C22_Witness ==
    /\ main.at = "caller"
    /\ main.calls = 3
    /\ thread.fn = 4
    /\ thread.at = "while"
    /\ buf["thread"] = <<>>
    /\ mem.next_frame = 4


\* main has seen frame k reported and has not yet made the call of
\* ContinueToNextFrame that follows (test.c lines 105-110, 112-117, 119-124,
\* 126-131).
Observed(k) ==
    /\ main.k = k
    /\ main.at \in {"get_current_rip", "get_current_rsp", "get_return_rip",
                     "continue_to_next_frame"}

\* C23: when main has seen GetCurrentFrameNumber() >= k and has not yet
\* called ContinueToNextFrame again, GetCurrentRip, GetCurrentRsp and
\* GetReturnRip return what funck stored, the values main has read so far
\* are those, and the fixture thread spins in funck with no store of its own
\* outstanding, so it does not modify them.
C23_FrameValuesStable ==
    \A k \in 1..4 :
       Observed(k)
           => /\ GetCurrentRip("main") = Site(Chain[k], "_GetCurrentRip")
              /\ GetCurrentRsp("main") = Site(Chain[k], "GetRsp")
              /\ GetReturnRip("main") = Site(Chain[k + 1], Chain[k])
              /\ main.at # "get_current_rip"
                    => main.current_rip = Site(Chain[k], "_GetCurrentRip")
              /\ main.at \in {"get_return_rip", "continue_to_next_frame"}
                    => main.current_rsp = Site(Chain[k], "GetRsp")
              /\ main.at = "continue_to_next_frame"
                    => main.return_rip = Site(Chain[k + 1], Chain[k])
              /\ thread.fn = k
              /\ thread.at = "while"
              /\ buf["thread"] = <<>>

\* main has read the three values of func3 and is about to call
\* ContinueToNextFrame for the third time.
C23_Witness ==
    /\ Observed(3)
    /\ main.at = "continue_to_next_frame"
    /\ main.current_rip = Site("func3", "_GetCurrentRip")
    /\ main.current_rsp = Site("func3", "GetRsp")
    /\ main.return_rip = Site("func4", "func3")
    /\ main.calls = 2


\* C24: whatever calls of ContinueToNextFrame the caller makes and whenever,
\* the value GetCurrentFrameNumber reports is the depth reached: when it is
\* k in 1..4 the store of in_frame it comes from is that of funck, and it is
\* never above 4.
C24_FrameNumberIsDepth ==
    /\ GetCurrentFrameNumber("main") <= 4
    /\ \A k \in 1..4 : GetCurrentFrameNumber("main") = k => published = k

====
